---- MODULE Spec2Model ----
(***************************************************************************)
(* Model of the tokio HTTP server in src/main.rs: the acceptor loop, the   *)
(* per-connection task under its 30 second deadline, handle_connection,    *)
(* handle_get_request, serve_static_html, serve_file and                   *)
(* serve_directory_listing.  Paths, bodies and file contents are strings,  *)
(* so that starts_with, trim_start_matches, contains, Path::join and       *)
(* content.len() are computed as the code computes them.                   *)
(***************************************************************************)
EXTENDS Integers, Sequences, FiniteSets, TLC

(***************************************************************************)
(* Bounds of the model.                                                    *)
(***************************************************************************)
\* number of connection slots (spawned tasks) the model keeps
MaxConns == 2
\* number of leading pieces (Pieces) a requested segment has before its leaf
MaxPieces == 1

(***************************************************************************)
(* Program constants.                                                      *)
(***************************************************************************)
\* let mut headers = [httparse::EMPTY_HEADER; 64];
MaxHeaders == 64
\* "Content-Length: 26" of the Incomplete response
IncompleteLength == 26
\* "Content-Length: 24" of the Malformed response
MalformedLength == 24

(***************************************************************************)
(* str helpers: starts_with, contains, trim_start_matches.                 *)
(***************************************************************************)
StartsWith(s, p) ==
    /\ Len(s) >= Len(p)
    /\ SubSeq(s, 1, Len(p)) = p

EndsWith(s, p) ==
    /\ Len(s) >= Len(p)
    /\ SubSeq(s, Len(s) - Len(p) + 1, Len(s)) = p

Contains(s, p) ==
    \E i \in 1..(Len(s) - Len(p) + 1) : SubSeq(s, i, i + Len(p) - 1) = p

\* str::trim_start_matches removes the prefix REPEATEDLY, until the string
\* no longer starts with it.
RECURSIVE TrimStartMatches(_, _)
TrimStartMatches(s, p) ==
    IF Len(p) > 0 /\ StartsWith(s, p)
    THEN TrimStartMatches(SubSeq(s, Len(p) + 1, Len(s)), p)
    ELSE s

\* number of (possibly overlapping) occurrences of p in s
Occurrences(s, p) ==
    Cardinality({i \in 1..(Len(s) - Len(p) + 1) : SubSeq(s, i, i + Len(p) - 1) = p})

\* index of the last '.' of a name, 0 when there is none
LastDot(s) ==
    IF \E i \in 1..Len(s) : SubSeq(s, i, i) = "."
    THEN CHOOSE i \in 1..Len(s) :
            /\ SubSeq(s, i, i) = "."
            /\ \A j \in (i + 1)..Len(s) : SubSeq(s, j, j) # "."
    ELSE 0

(***************************************************************************)
(* std::path::Path, for Unix paths.                                        *)
(***************************************************************************)
IsAbsolute(p) == StartsWith(p, "/")

\* the pieces of p between separators, empty pieces included
RECURSIVE SplitPath(_)
SplitPath(p) ==
    IF ~Contains(p, "/")
    THEN <<p>>
    ELSE LET i == CHOOSE k \in 1..Len(p) :
                     /\ SubSeq(p, k, k) = "/"
                     /\ \A j \in 1..(k - 1) : SubSeq(p, j, j) # "/"
         IN  <<SubSeq(p, 1, i - 1)>> \o SplitPath(SubSeq(p, i + 1, Len(p)))

\* Path::components: repeated separators and `.` are normalised away, except
\* a `.` at the beginning of a relative path; `..` is kept.
Components(p) ==
    LET raw  == SplitPath(p)
        keep(i) == /\ raw[i] # ""
                   /\ (raw[i] = "." => (i = 1 /\ ~IsAbsolute(p)))
        RECURSIVE Pick(_)
        Pick(i) == IF i > Len(raw) THEN <<>>
                   ELSE (IF keep(i) THEN <<raw[i]>> ELSE <<>>) \o Pick(i + 1)
    IN  [abs |-> IsAbsolute(p), names |-> Pick(1)]

\* PartialEq for Path compares components
PathEq(p, q) == Components(p) = Components(q)

\* Path::join / PathBuf::push: an absolute argument REPLACES the base
PathJoin(base, p) ==
    IF IsAbsolute(p) THEN p
    ELSE IF base = "" \/ EndsWith(base, "/") THEN base \o p
    ELSE base \o "/" \o p

\* Path::file_name: the last component, unless it is `..` or there is none
FileName(p) ==
    LET n == Components(p).names
    IN  IF Len(n) = 0 \/ n[Len(n)] = ".." \/ n[Len(n)] = "."
        THEN [some |-> FALSE, val |-> ""]
        ELSE [some |-> TRUE, val |-> n[Len(n)]]

\* Path::extension: the part of file_name after its last `.`; none when there
\* is no `.` or when the only `.` is the first character
Extension(p) ==
    LET f == FileName(p)
        d == LastDot(f.val)
    IN  IF ~f.some \/ d <= 1
        THEN [some |-> FALSE, val |-> ""]
        ELSE [some |-> TRUE, val |-> SubSeq(f.val, d + 1, Len(f.val))]

\* Path::strip_prefix(base).unwrap_or(Path::new("")), then display(): the
\* components after the prefix, or the empty path when p does not start with it
RECURSIVE JoinNames(_)
JoinNames(n) ==
    IF Len(n) = 0 THEN ""
    ELSE IF Len(n) = 1 THEN n[1]
    ELSE n[1] \o "/" \o JoinNames(Tail(n))

StripPrefixOrEmpty(p, base) ==
    LET c == Components(p)
        b == Components(base)
    IN  IF /\ c.abs = b.abs
           /\ Len(c.names) >= Len(b.names)
           /\ SubSeq(c.names, 1, Len(b.names)) = b.names
        THEN JoinNames(SubSeq(c.names, Len(b.names) + 1, Len(c.names)))
        ELSE ""

(***************************************************************************)
(* The filesystem the server runs on.  The process's working directory is  *)
(* /srv and the serving root is the relative path `public` (line 167), so  *)
(* the root is /srv/public.  `readable` is whether File::open / read_dir   *)
(* succeeds on the node, `typeOk` whether DirEntry::file_type succeeds.    *)
(***************************************************************************)
Cwd == <<"srv">>

ServingRoot == "public"

FsNode(path, kind, data, readable, typeOk) ==
    [path |-> path, kind |-> kind, data |-> data,
     readable |-> readable, typeOk |-> typeOk]

FsEntries == <<
    FsNode(<<"etc">>, "dir", "", TRUE, TRUE),
    FsNode(<<"etc", "passwd">>, "file", "root:x:0:0", TRUE, TRUE),
    FsNode(<<"srv">>, "dir", "", TRUE, TRUE),
    FsNode(<<"srv", "Cargo.toml">>, "file", "[package]", TRUE, TRUE),
    FsNode(<<"srv", "public">>, "dir", "", TRUE, TRUE),
    FsNode(<<"srv", "public", "index.html">>, "file", "<h1>index</h1>", TRUE, TRUE),
    FsNode(<<"srv", "public", "a..b.css">>, "file", "body{}", TRUE, TRUE),
    FsNode(<<"srv", "public", "app.js">>, "file", "let x;", TRUE, TRUE),
    FsNode(<<"srv", "public", "secret.js">>, "file", "key", FALSE, TRUE),
    FsNode(<<"srv", "public", "photo.jpg">>, "file", "JFIF1", TRUE, TRUE),
    FsNode(<<"srv", "public", "photo.jpeg">>, "file", "JFIF22", TRUE, TRUE),
    FsNode(<<"srv", "public", "anim.gif">>, "file", "GIF89a", TRUE, TRUE),
    FsNode(<<"srv", "public", "notes">>, "file", "", TRUE, TRUE),
    FsNode(<<"srv", "public", "sub">>, "dir", "", TRUE, TRUE),
    FsNode(<<"srv", "public", "sub", "pic.png">>, "file", "PNG", TRUE, TRUE),
    FsNode(<<"srv", "public", "sub", "ghost">>, "file", "boo", TRUE, FALSE),
    FsNode(<<"srv", "public", "sub", "deep">>, "dir", "", TRUE, TRUE),
    FsNode(<<"srv", "public", "locked">>, "dir", "", FALSE, TRUE) >>

FsIndex(node) ==
    IF \E i \in 1..Len(FsEntries) : FsEntries[i].path = node
    THEN CHOOSE i \in 1..Len(FsEntries) : FsEntries[i].path = node
    ELSE 0

FsIsDir(node) ==
    \/ node = <<>>
    \/ (FsIndex(node) # 0 /\ FsEntries[FsIndex(node)].kind = "dir")

FsExists(node) == node = <<>> \/ FsIndex(node) # 0

\* the kernel's path walk: every component but the last must be an existing
\* directory, `..` goes to the parent (the root is its own parent), and a
\* trailing separator requires a directory
RECURSIVE Walk(_, _)
Walk(cur, names) ==
    IF Len(names) = 0 THEN [ok |-> FsExists(cur), node |-> cur]
    ELSE IF ~FsIsDir(cur) THEN [ok |-> FALSE, node |-> cur]
    ELSE IF Head(names) = "." THEN Walk(cur, Tail(names))
    ELSE IF Head(names) = ".."
         THEN Walk(IF Len(cur) = 0 THEN cur ELSE SubSeq(cur, 1, Len(cur) - 1),
                   Tail(names))
    ELSE Walk(Append(cur, Head(names)), Tail(names))

Lookup(p) ==
    LET c == Components(p)
        w == Walk(IF c.abs THEN <<>> ELSE Cwd, c.names)
    IN  IF w.ok /\ EndsWith(p, "/") /\ ~FsIsDir(w.node)
        THEN [ok |-> FALSE, node |-> w.node]
        ELSE w

\* Path::is_dir: false when the path does not exist or cannot be stat'd
IsDir(p) == Lookup(p).ok /\ FsIsDir(Lookup(p).node)

\* tokio::fs::File::open(p) returns Ok
OpenOk(p) ==
    LET l == Lookup(p)
    IN  /\ l.ok
        /\ FsIndex(l.node) # 0
        /\ FsEntries[FsIndex(l.node)].kind = "file"
        /\ FsEntries[FsIndex(l.node)].readable

FileData(p) == FsEntries[FsIndex(Lookup(p).node)].data

\* std::fs::read_dir(p) returns Ok
ReadDirOk(p) ==
    LET l == Lookup(p)
    IN  /\ l.ok
        /\ FsIsDir(l.node)
        /\ (l.node = <<>> \/ FsEntries[FsIndex(l.node)].readable)

\* the entries read_dir yields for p: its immediate children
DirEntries(p) ==
    LET d == Lookup(p).node
    IN  SelectSeq(FsEntries, LAMBDA e :
            /\ Len(e.path) = Len(d) + 1
            /\ SubSeq(e.path, 1, Len(d)) = d)

\* where a path points once `..` and `.` are resolved, as an absolute node
RECURSIVE Normal(_, _)
Normal(cur, names) ==
    IF Len(names) = 0 THEN cur
    ELSE IF Head(names) = "." THEN Normal(cur, Tail(names))
    ELSE IF Head(names) = ".."
         THEN Normal(IF Len(cur) = 0 THEN cur ELSE SubSeq(cur, 1, Len(cur) - 1),
                     Tail(names))
    ELSE Normal(Append(cur, Head(names)), Tail(names))

Target(p) ==
    LET c == Components(p)
    IN  Normal(IF c.abs THEN <<>> ELSE Cwd, c.names)

RootNode == Target(ServingRoot)

UnderRoot(node) ==
    /\ Len(node) >= Len(RootNode)
    /\ SubSeq(node, 1, Len(RootNode)) = RootNode

(***************************************************************************)
(* Fixed content: the builtin pages and the bodies of the error responses. *)
(***************************************************************************)
HomeHtml ==
    "<html><body>\n                    <h1>Welcome to Tokio Async Server</h1>\n                    <p>This is a simple async HTTP server built with Tokio.</p>\n                    <ul>\n                        <li><a href='/'>Home</a></li>\n                        <li><a href='/about'>About</a></li>\n                        <li><a href='/files/index.html'>Static File Example</a></li>\n                        <li><a href='/files/'>Files Directory</a></li>\n                    </ul>\n                </body></html>"

AboutHtml ==
    "<html><body>\n                    <h1>About This Server</h1>\n                    <p>This is a demonstration of asynchronous programming in Rust using Tokio.</p>\n                    <p><a href='/'>Back to home</a></p>\n                </body></html>"

NotFoundHtml ==
    "<html><body>\n                    <h1>404: Page not found</h1>\n                    <p>The requested resource could not be found.</p>\n                    <p><a href='/'>Back to home</a></p>\n                </body></html>"

ForbiddenHtml ==
    "<html><body><h1>403 Forbidden</h1><p>Access denied.</p></body></html>"

FileNotFoundHtml ==
    "<html><body><h1>404 Not Found</h1><p>The requested file could not be found.</p></body></html>"

DirErrorHtml ==
    "<html><body><h1>500 Internal Server Error</h1><p>Could not read directory.</p></body></html>"

IncompleteBody == "Incomplete request received"

MalformedBody == "Malformed HTTP request"

StatusOk == "HTTP/1.1 200 OK"

StatusBadRequest == "HTTP/1.1 400 Bad Request"

StatusForbidden == "HTTP/1.1 403 Forbidden"

StatusNotFound == "HTTP/1.1 404 NOT FOUND"

StatusMethodNotAllowed == "HTTP/1.1 405 Method Not Allowed"

StatusServerError == "HTTP/1.1 500 Internal Server Error"

(***************************************************************************)
(* What is written to a socket: a sequence of chunks.  A head chunk is a   *)
(* status line with its header lines and the blank line; a body chunk is   *)
(* the bytes that follow.  One write_all call writes one or two chunks.    *)
(***************************************************************************)
Header(name, value) == [name |-> name, value |-> value]

HeadChunk(status, headers) ==
    [kind |-> "head", status |-> status, headers |-> headers, data |-> ""]

BodyChunk(data) ==
    [kind |-> "body", status |-> "", headers |-> <<>>, data |-> data]

\* format!("{}\r\nContent-Length: {}\r\nContent-Type: {}\r\nConnection: close\r\n\r\n{}", ...)
StaticHtmlResponse(content, status) ==
    << HeadChunk(status, << Header("Content-Length", ToString(Len(content))),
                            Header("Content-Type", "text/html"),
                            Header("Connection", "close") >>),
       BodyChunk(content) >>

\* "HTTP/1.1 405 Method Not Allowed\r\n\r\n"
MethodNotAllowedResponse == << HeadChunk(StatusMethodNotAllowed, <<>>) >>

\* "HTTP/1.1 400 Bad Request\r\nContent-Length: 26\r\n\r\nIncomplete request received"
IncompleteResponse ==
    << HeadChunk(StatusBadRequest,
                 << Header("Content-Length", ToString(IncompleteLength)) >>),
       BodyChunk(IncompleteBody) >>

\* "HTTP/1.1 400 Bad Request\r\nContent-Length: 24\r\n\r\nMalformed HTTP request"
MalformedResponse ==
    << HeadChunk(StatusBadRequest,
                 << Header("Content-Length", ToString(MalformedLength)) >>),
       BodyChunk(MalformedBody) >>

\* ContentTypeFor with the `jpeg` arm of the match forgotten
ContentTypeForNoJpeg(file_path) ==
    LET e == Extension(file_path)
    IN  IF ~e.some THEN "application/octet-stream"
        ELSE IF e.val = "html" THEN "text/html"
        ELSE IF e.val = "css" THEN "text/css"
        ELSE IF e.val = "js" THEN "application/javascript"
        ELSE IF e.val = "jpg" THEN "image/jpeg"
        ELSE IF e.val = "png" THEN "image/png"
        ELSE IF e.val = "gif" THEN "image/gif"
        ELSE "application/octet-stream"

\* the content type chosen from the extension of the joined path
ContentTypeFor(file_path) ==
    LET e == Extension(file_path)
    IN  IF ~e.some THEN "application/octet-stream"
        ELSE IF e.val = "html" THEN "text/html"
        ELSE IF e.val = "css" THEN "text/css"
        ELSE IF e.val = "js" THEN "application/javascript"
        ELSE IF e.val = "jpg" \/ e.val = "jpeg" THEN "image/jpeg"
        ELSE IF e.val = "png" THEN "image/png"
        ELSE IF e.val = "gif" THEN "image/gif"
        ELSE "application/octet-stream"

\* the header block serve_file writes before the file's bytes
FileHead(contents, file_path) ==
    << HeadChunk(StatusOk, << Header("Content-Length", ToString(Len(contents))),
                              Header("Content-Type", ContentTypeFor(file_path)),
                              Header("Connection", "close") >>) >>

(***************************************************************************)
(* serve_directory_listing: the HTML it builds.                            *)
(***************************************************************************)
ParentLink == "<li><a href=\"../\">..</a> (Parent Directory)</li>"

\* let rel_path = if dir_path == Path::new("public") { "/files/" } else { ... }
RelPath(dir_path) ==
    IF PathEq(dir_path, ServingRoot) THEN "/files/"
    ELSE "/files/" \o StripPrefixOrEmpty(dir_path, ServingRoot) \o "/"

EntryName(e) == e.path[Len(e.path)]

\* one <li> per entry whose file_type() is Ok; the others are skipped
EntryItem(e) ==
    IF ~e.typeOk THEN ""
    ELSE IF e.kind = "dir"
         THEN "<li><a href=\"" \o EntryName(e) \o "/\">" \o EntryName(e) \o "/</a></li>"
    ELSE "<li><a href=\"" \o EntryName(e) \o "\">" \o EntryName(e) \o "</a></li>"

RECURSIVE EntryItems(_)
EntryItems(es) ==
    IF Len(es) = 0 THEN "" ELSE EntryItem(Head(es)) \o EntryItems(Tail(es))

ListingHasParent(dir_path) == RelPath(dir_path) # "/files/"

ListingHtml(dir_path) ==
    "<html><body><h1>Directory: " \o RelPath(dir_path) \o "</h1><ul>"
      \o (IF ListingHasParent(dir_path) THEN ParentLink ELSE "")
      \o EntryItems(DirEntries(dir_path))
      \o "</ul></body></html>"

(***************************************************************************)
(* Requests a client may send: what the single socket.read puts in the     *)
(* buffer.  `headers` is the number of header lines, `ended` whether the   *)
(* blank line that ends the header block was received, `valid` whether the *)
(* bytes are HTTP tokens at all.                                           *)
(***************************************************************************)
Methods == {"GET", "POST", "get"}

\* pieces a requested segment may begin with
Pieces == {"/files/", "/", "../", "./", "sub/"}

\* what a requested segment may end with
Leaves == {"", "..", ".", "index.html", "a..b.css", "app.js", "secret.js",
           "photo.jpg", "photo.jpeg", "anim.gif", "notes", "UP.HTML",
           "pic.png", "missing.txt", "sub", "locked", "ghost",
           "etc/passwd", "srv/public", "Cargo.toml"}

RECURSIVE Prefixes(_)
Prefixes(k) ==
    IF k = 0 THEN {""}
    ELSE Prefixes(k - 1) \cup {a \o b : a \in Pieces, b \in Prefixes(k - 1)}

Segments == {a \o b : a \in Prefixes(MaxPieces), b \in Leaves}

Paths ==
    {"/", "/about", "/about/", "/files", "/index.html", "*"}
        \cup {"/files/" \o g : g \in Segments}

Request(method, path, headers, ended, valid) ==
    [method |-> method, path |-> path, headers |-> headers,
     ended |-> ended, valid |-> valid]

NoRequest == Request("", "", 0, FALSE, FALSE)

Requests ==
    {Request(m, p, 1, TRUE, TRUE) : m \in Methods, p \in Paths}
        \cup {Request("GET", "/", h, e, TRUE) :
                  h \in {0, MaxHeaders, MaxHeaders + 1}, e \in BOOLEAN}
        \cup {Request("GET", "/files/index.html", 1, FALSE, TRUE),
              Request("", "", 0, TRUE, FALSE)}

\* request.parse(&buffer[..n]) with room for MaxHeaders headers
Parse(r) ==
    IF ~r.valid THEN "Error"
    ELSE IF r.headers > MaxHeaders THEN "Error"
    ELSE IF ~r.ended THEN "Partial"
    ELSE "Complete"

(***************************************************************************)
(* State.                                                                  *)
(***************************************************************************)
Conns == 1..MaxConns

VARIABLES
    backlog,   \* connections waiting in the listener's accept queue
    pc,        \* per connection: where its task is suspended
    req,       \* per connection: what socket.read returned
    nread,     \* per connection: "none", "zero" or "data" for the read's n
    sock,      \* per connection: the chunks written to the socket so far
    wbuf,      \* per connection: the chunks of the write_all in flight
    after,     \* per connection: what follows the write_all in flight
    contents,  \* per connection: the bytes read_to_end put in `contents`
    log,       \* per connection: calls, socket and filesystem operations
    result     \* per connection: how the spawned task ended

vars == <<backlog, pc, req, nread, sock, wbuf, after, contents, log, result>>

\* the points where a handler is suspended and the deadline can fire
AwaitPoints == {"read", "write", "open", "read_to_end"}

Event(op, arg) == [op |-> op, arg |-> arg]

\* a suspension of the handler: where, the bytes being written, what follows
\* the write, and the operations performed on the way there
Suspend(at, bytes, then, events) ==
    [pc |-> at, wbuf |-> bytes, after |-> then, ev |-> events]

WriteAll(bytes, then, events) ==
    Suspend("write", bytes, then, Append(events, Event("write_all", "")))

(***************************************************************************)
(* The handler's code between two suspension points.                       *)
(***************************************************************************)
\* serve_static_html(socket, content, status).await
ServeStaticHtml(content, status, then, events) ==
    WriteAll(StaticHtmlResponse(content, status), then,
             Append(events, Event("call", "serve_static_html")))

\* serve_directory_listing(socket, dir_path)
ServeDirectoryListing(dir_path, events) ==
    LET ev == events \o << Event("call", "serve_directory_listing"),
                           Event("read_dir", dir_path) >>
    IN  IF ~ReadDirOk(dir_path)
        THEN ServeStaticHtml(DirErrorHtml, StatusServerError, "return", ev)
        ELSE ServeStaticHtml(ListingHtml(dir_path), StatusOk, "return", ev)

\* the segment of a request path: path.trim_start_matches("/files/")
SegmentOf(path) == TrimStartMatches(path, "/files/")

\* Path::new("public").join(file_path)
JoinedPath(path) == PathJoin(ServingRoot, SegmentOf(path))

\* serve_file from the join on: lines 166-174
ResolveFile(path, events) ==
    LET file_path == JoinedPath(path)
        ev == Append(events, Event("is_dir", file_path))
    IN  IF IsDir(file_path)
        THEN ServeDirectoryListing(file_path, ev)
        ELSE Suspend("open", <<>>, "", Append(ev, Event("File::open", file_path)))

\* serve_file up to its first suspension: the `..` guard writes the 403 and,
\* having no `return`, goes on to the join once that write is done
ServeFile(path, events) ==
    LET ev == Append(events, Event("call", "serve_file"))
    IN  IF Contains(SegmentOf(path), "..")
        THEN ServeStaticHtml(ForbiddenHtml, StatusForbidden, "resolve", ev)
        ELSE ResolveFile(path, ev)

\* handle_get_request with the guard written starts_with("/files")
HandleGetRequestLoosePrefix(path, events) ==
    LET ev == Append(events, Event("call", "handle_get_request"))
    IN  IF path = "/" THEN ServeStaticHtml(HomeHtml, StatusOk, "return", ev)
        ELSE IF path = "/about" THEN ServeStaticHtml(AboutHtml, StatusOk, "return", ev)
        ELSE IF StartsWith(path, "/files") THEN ServeFile(path, ev)
        ELSE ServeStaticHtml(NotFoundHtml, StatusNotFound, "return", ev)

\* handle_get_request(socket, path)
HandleGetRequest(path, events) ==
    LET ev == Append(events, Event("call", "handle_get_request"))
    IN  IF path = "/" THEN ServeStaticHtml(HomeHtml, StatusOk, "return", ev)
        ELSE IF path = "/about" THEN ServeStaticHtml(AboutHtml, StatusOk, "return", ev)
        ELSE IF StartsWith(path, "/files/") THEN ServeFile(path, ev)
        ELSE ServeStaticHtml(NotFoundHtml, StatusNotFound, "return", ev)

\* handle_connection reading again when the request is incomplete, instead
\* of answering 400
HandleParsedReadsMore(r, events) ==
    LET ev == Append(events, Event("parse", Parse(r)))
    IN  IF Parse(r) = "Complete"
        THEN IF r.method = "GET"
             THEN HandleGetRequest(r.path, ev)
             ELSE WriteAll(MethodNotAllowedResponse, "return", ev)
        ELSE IF Parse(r) = "Partial"
             THEN Suspend("read", <<>>, "", Append(ev, Event("socket.read", "")))
        ELSE WriteAll(MalformedResponse, "return", ev)

\* handle_connection with the method compared without regard to case
HandleParsedAnyCase(r, events) ==
    LET ev == Append(events, Event("parse", Parse(r)))
    IN  IF Parse(r) = "Complete"
        THEN IF r.method \in {"GET", "get"}
             THEN HandleGetRequest(r.path, ev)
             ELSE WriteAll(MethodNotAllowedResponse, "return", ev)
        ELSE IF Parse(r) = "Partial"
             THEN WriteAll(IncompleteResponse, "return", ev)
        ELSE WriteAll(MalformedResponse, "return", ev)

\* handle_connection after a read of n > 0 bytes: parse and dispatch
HandleParsed(r, events) ==
    LET ev == Append(events, Event("parse", Parse(r)))
    IN  IF Parse(r) = "Complete"
        THEN IF r.method = "GET"
             THEN HandleGetRequest(r.path, ev)
             ELSE WriteAll(MethodNotAllowedResponse, "return", ev)
        ELSE IF Parse(r) = "Partial"
             THEN WriteAll(IncompleteResponse, "return", ev)
        ELSE WriteAll(MalformedResponse, "return", ev)

(***************************************************************************)
(* Initial state: the listener is bound, no connection is accepted yet.    *)
(***************************************************************************)
InitConns ==
    /\ pc = [c \in Conns |-> "idle"]
    /\ req = [c \in Conns |-> NoRequest]
    /\ nread = [c \in Conns |-> "none"]
    /\ sock = [c \in Conns |-> <<>>]
    /\ wbuf = [c \in Conns |-> <<>>]
    /\ after = [c \in Conns |-> ""]
    /\ contents = [c \in Conns |-> ""]
    /\ log = [c \in Conns |-> <<>>]
    /\ result = [c \in Conns |-> "none"]

\* one client connects
Init ==
    /\ backlog = 1
    /\ InitConns

(***************************************************************************)
(* Actions.                                                                *)
(***************************************************************************)
\* the handler runs on to the suspension s
Continue(c, s) ==
    /\ pc' = [pc EXCEPT ![c] = s.pc]
    /\ wbuf' = [wbuf EXCEPT ![c] = s.wbuf]
    /\ after' = [after EXCEPT ![c] = s.after]
    /\ log' = [log EXCEPT ![c] = s.ev]

\* the task's error leaving main's loop (as with `.await?` on the handler in
\* main): the runtime shuts down and every task still suspended is dropped
FinishStopsServer(c, how) ==
    /\ pc' = [d \in Conns |->
                IF d = c \/ (how # "ok" /\ pc[d] \in AwaitPoints)
                THEN "closed" ELSE pc[d]]
    /\ wbuf' = [wbuf EXCEPT ![c] = <<>>]
    /\ after' = [after EXCEPT ![c] = ""]
    /\ result' = [result EXCEPT ![c] = how]

\* the task ends: handle_connection returned Ok or Err, or the deadline
\* fired; the socket is dropped
Finish(c, how) ==
    /\ pc' = [pc EXCEPT ![c] = "closed"]
    /\ wbuf' = [wbuf EXCEPT ![c] = <<>>]
    /\ after' = [after EXCEPT ![c] = ""]
    /\ result' = [result EXCEPT ![c] = how]

\* main's loop with the handler awaited in the loop instead of spawned: the
\* next accept waits until the previous handler is done
AcceptAfterHandler(c) ==
    /\ backlog > 0
    /\ pc[c] = "idle"
    /\ \A d \in Conns : pc[d] \in {"idle", "closed"}
    /\ \A d \in Conns : d < c => pc[d] # "idle"
    /\ backlog' = backlog - 1
    /\ pc' = [pc EXCEPT ![c] = "read"]
    /\ log' = [log EXCEPT ![c] = Append(log[c], Event("socket.read", ""))]
    /\ UNCHANGED <<req, nread, sock, wbuf, after, contents, result>>

\* main's loop: listener.accept() and tokio::spawn of the connection's task,
\* which runs handle_connection up to socket.read
Accept(c) ==
    /\ backlog > 0
    /\ pc[c] = "idle"
    /\ \A d \in Conns : d < c => pc[d] # "idle"
    /\ backlog' = backlog - 1
    /\ pc' = [pc EXCEPT ![c] = "read"]
    /\ log' = [log EXCEPT ![c] = Append(log[c], Event("socket.read", ""))]
    /\ UNCHANGED <<req, nread, sock, wbuf, after, contents, result>>

\* handle_connection without the `if n == 0` return: the empty buffer is
\* parsed, which gives Partial
ReadZeroParsed(c) ==
    /\ pc[c] = "read"
    /\ nread' = [nread EXCEPT ![c] = "zero"]
    /\ Continue(c, WriteAll(IncompleteResponse, "return",
                            Append(log[c], Event("parse", "Partial"))))
    /\ UNCHANGED <<backlog, req, sock, contents, result>>

\* socket.read returns Ok(0): return Ok(())
ReadZero(c) ==
    /\ pc[c] = "read"
    /\ nread' = [nread EXCEPT ![c] = "zero"]
    /\ Finish(c, "ok")
    /\ UNCHANGED <<backlog, req, sock, contents, log>>

\* socket.read returns Err: the `?` returns it
ReadFail(c) ==
    /\ pc[c] = "read"
    /\ Finish(c, "err")
    /\ UNCHANGED <<backlog, req, nread, sock, contents, log>>

\* socket.read returns Ok(n), n > 0, with the bytes of request r
ReadData(c, R) ==
    /\ pc[c] = "read"
    /\ \E r \in R :
          /\ req' = [req EXCEPT ![c] = r]
          /\ nread' = [nread EXCEPT ![c] = "data"]
          /\ Continue(c, HandleParsed(r, log[c]))
    /\ UNCHANGED <<backlog, sock, contents, result>>

\* the write_all in flight returns Ok: all its bytes are on the socket
WriteDone(c) ==
    /\ pc[c] = "write"
    /\ sock' = [sock EXCEPT ![c] = sock[c] \o wbuf[c]]
    /\ IF after[c] = "resolve"
       THEN /\ Continue(c, ResolveFile(req[c].path, log[c]))
            /\ UNCHANGED result
       ELSE IF after[c] = "body"
       THEN /\ Continue(c, WriteAll(<<BodyChunk(contents[c])>>, "return", log[c]))
            /\ UNCHANGED result
       ELSE /\ Finish(c, "ok")
            /\ UNCHANGED log
    /\ UNCHANGED <<backlog, req, nread, contents>>

\* the failed write only reported (`if let Err(e) = ... { eprintln!(..) }`)
\* instead of returned with `?`: serve_file goes on after a failed 403
WriteFailReported(c) ==
    /\ pc[c] = "write"
    /\ \E k \in 0..(Len(wbuf[c]) - 1) :
          sock' = [sock EXCEPT ![c] = sock[c] \o SubSeq(wbuf[c], 1, k)]
    /\ result' = [result EXCEPT ![c] = "err"]
    /\ IF after[c] = "resolve"
       THEN Continue(c, ResolveFile(req[c].path, log[c]))
       ELSE /\ pc' = [pc EXCEPT ![c] = "closed"]
            /\ wbuf' = [wbuf EXCEPT ![c] = <<>>]
            /\ after' = [after EXCEPT ![c] = ""]
            /\ UNCHANGED log
    /\ UNCHANGED <<backlog, req, nread, contents>>

\* the write_all in flight returns Err after k of its chunks went out
WriteFail(c) ==
    /\ pc[c] = "write"
    /\ \E k \in 0..(Len(wbuf[c]) - 1) :
          sock' = [sock EXCEPT ![c] = sock[c] \o SubSeq(wbuf[c], 1, k)]
    /\ Finish(c, "err")
    /\ UNCHANGED <<backlog, req, nread, contents, log>>

\* serve_file with `File::open(&file_path).await?`: a failed open is
\* returned as the handler's error instead of being answered 404
OpenDoneOrFail(c) ==
    /\ pc[c] = "open"
    /\ IF OpenOk(JoinedPath(req[c].path))
       THEN /\ Continue(c, Suspend("read_to_end", <<>>, "",
                   Append(log[c], Event("read_to_end", JoinedPath(req[c].path)))))
            /\ UNCHANGED result
       ELSE /\ Finish(c, "err")
            /\ UNCHANGED log
    /\ UNCHANGED <<backlog, req, nread, sock, contents>>

\* File::open returns: Ok goes on to read_to_end, Err to the 404 page
OpenDone(c) ==
    /\ pc[c] = "open"
    /\ IF OpenOk(JoinedPath(req[c].path))
       THEN Continue(c, Suspend("read_to_end", <<>>, "",
                Append(log[c], Event("read_to_end", JoinedPath(req[c].path)))))
       ELSE Continue(c, ServeStaticHtml(FileNotFoundHtml, StatusNotFound,
                "return", log[c]))
    /\ UNCHANGED <<backlog, req, nread, sock, contents, result>>

\* file.read_to_end returns Ok: the header block is written first
ReadToEndDone(c) ==
    /\ pc[c] = "read_to_end"
    /\ LET file_path == JoinedPath(req[c].path)
           data == FileData(file_path)
       IN  /\ contents' = [contents EXCEPT ![c] = data]
           /\ Continue(c, WriteAll(FileHead(data, file_path), "body", log[c]))
    /\ UNCHANGED <<backlog, req, nread, sock, result>>

\* file.read_to_end returns Err: the `?` returns it
ReadToEndFail(c) ==
    /\ pc[c] = "read_to_end"
    /\ Finish(c, "err")
    /\ UNCHANGED <<backlog, req, nread, sock, contents, log>>

\* the deadline put around the read only: a handler suspended in a write or
\* a file operation is never cut off
TimeoutOnReadOnly(c) ==
    /\ pc[c] = "read"
    /\ sock' = sock
    /\ Finish(c, "timeout")
    /\ UNCHANGED <<backlog, req, nread, contents, log>>

\* timeout(Duration::from_secs(30), ...) elapses while the handler is
\* suspended; a write_all in flight may have put k of its chunks out
Timeout(c) ==
    /\ pc[c] \in AwaitPoints
    /\ \E k \in 0..(IF Len(wbuf[c]) = 0 THEN 0 ELSE Len(wbuf[c]) - 1) :
          sock' = [sock EXCEPT ![c] = sock[c] \o SubSeq(wbuf[c], 1, k)]
    /\ Finish(c, "timeout")
    /\ UNCHANGED <<backlog, req, nread, contents, log>>

Next ==
    \/ \E c \in Conns : Accept(c)
    \/ \E c \in Conns : ReadZero(c)
    \/ \E c \in Conns : ReadFail(c)
    \/ \E c \in Conns : ReadData(c, Requests)
    \/ \E c \in Conns : WriteDone(c)
    \/ \E c \in Conns : WriteFail(c)
    \/ \E c \in Conns : OpenDone(c)
    \/ \E c \in Conns : ReadToEndDone(c)
    \/ \E c \in Conns : ReadToEndFail(c)
    \/ \E c \in Conns : Timeout(c)

Spec == Init /\ [][Next]_vars

(***************************************************************************)
(* Several clients at once: as many connections as there are slots, each   *)
(* sending one of a few requests that between them take every branch of    *)
(* the handler.                                                            *)
(***************************************************************************)
ConcRequests ==
    { Request("GET", "/", 1, TRUE, TRUE),
      Request("GET", "/files/index.html", 1, TRUE, TRUE),
      Request("GET", "/files/..", 1, TRUE, TRUE),
      Request("POST", "/", 1, TRUE, TRUE),
      Request("GET", "/", 1, FALSE, TRUE) }

InitConc ==
    /\ backlog = MaxConns
    /\ InitConns

NextConc ==
    \/ \E c \in Conns : Accept(c)
    \/ \E c \in Conns : ReadZero(c)
    \/ \E c \in Conns : ReadFail(c)
    \/ \E c \in Conns : ReadData(c, ConcRequests)
    \/ \E c \in Conns : WriteDone(c)
    \/ \E c \in Conns : WriteFail(c)
    \/ \E c \in Conns : OpenDone(c)
    \/ \E c \in Conns : ReadToEndDone(c)
    \/ \E c \in Conns : ReadToEndFail(c)
    \/ \E c \in Conns : Timeout(c)

SpecConc == InitConc /\ [][NextConc]_vars

\* the timer of timeout() fires: whatever the peer and the filesystem do, a
\* suspended handler does not stay suspended for ever
SpecLive == SpecConc /\ \A c \in Conns : WF_vars(Timeout(c))

(***************************************************************************)
(* Observations the properties are stated over.                            *)
(***************************************************************************)
FsOps == {"is_dir", "File::open", "read_dir", "read_to_end"}

FsEvents(c) == SelectSeq(log[c], LAMBDA e : e.op \in FsOps)

Called(c, fn) == \E i \in DOMAIN log[c] : log[c][i] = Event("call", fn)

\* the status lines written to c's socket, in order
Heads(c) == SelectSeq(sock[c], LAMBDA k : k.kind = "head")

StatusLines(c) == [i \in DOMAIN Heads(c) |-> Heads(c)[i].status]

HasHeader(chunk, name) ==
    \E i \in DOMAIN chunk.headers : chunk.headers[i].name = name

HeaderValue(chunk, name) ==
    chunk.headers[CHOOSE i \in DOMAIN chunk.headers : chunk.headers[i].name = name].value

\* the body bytes that follow the head chunk at position i of c's socket
BodyAfter(c, i) ==
    IF i + 1 <= Len(sock[c]) /\ sock[c][i + 1].kind = "body"
    THEN sock[c][i + 1].data
    ELSE ""

\* c read a complete request with method GET
IsGet(c) ==
    /\ nread[c] = "data"
    /\ Parse(req[c]) = "Complete"
    /\ req[c].method = "GET"

\* c's request is a GET under the /files/ prefix
IsFileGet(c) == IsGet(c) /\ StartsWith(req[c].path, "/files/")

\* what follows the first /files/ of the path
Remainder(path) == SubSeq(path, Len("/files/") + 1, Len(path))

(***************************************************************************)
(* C1: a connection whose read returned data and whose handler returned Ok *)
(* (no deadline, no I/O error) has exactly one response on its socket: one *)
(* status line, written first.                                             *)
(***************************************************************************)
C1_ExactlyOneResponse ==
    \A c \in Conns :
        (nread[c] = "data" /\ result[c] = "ok") =>
            /\ Len(Heads(c)) = 1
            /\ sock[c][1].kind = "head"

(***************************************************************************)
(* C2: a GET under /files/ whose remainder contains `..` is answered 403   *)
(* and performs no filesystem access, before or after the 403.             *)
(***************************************************************************)
C2_NoFsAccessOnDotDot ==
    \A c \in Conns :
        (IsFileGet(c) /\ Contains(Remainder(req[c].path), "..")) =>
            /\ FsEvents(c) = <<>>
            /\ (result[c] = "ok" => StatusLines(c) = <<StatusForbidden>>)

(***************************************************************************)
(* C3: every path the handler tests with is_dir, opens or lists lies under *)
(* the serving root.                                                       *)
(***************************************************************************)
C3_AccessUnderRoot ==
    \A c \in Conns : \A i \in DOMAIN log[c] :
        log[c][i].op \in FsOps => UnderRoot(Target(log[c][i].arg))

(***************************************************************************)
(* C4: in every response of a handler that returned Ok, the Content-Length *)
(* header's value is the number of body bytes written after the blank line.*)
(***************************************************************************)
C4_ContentLengthExact ==
    \A c \in Conns : \A i \in DOMAIN sock[c] :
        ( /\ result[c] = "ok"
          /\ sock[c][i].kind = "head"
          /\ HasHeader(sock[c][i], "Content-Length") ) =>
            HeaderValue(sock[c][i], "Content-Length") = ToString(Len(BodyAfter(c, i)))

(***************************************************************************)
(* C5: a completely parsed request whose method is not exactly "GET" gets  *)
(* status 405 whatever its path; the router is not invoked and the         *)
(* filesystem is not touched.                                              *)
(***************************************************************************)
C5_NonGetIs405 ==
    \A c \in Conns :
        (nread[c] = "data" /\ Parse(req[c]) = "Complete" /\ req[c].method # "GET") =>
            /\ ~Called(c, "handle_get_request")
            /\ ~Called(c, "serve_file")
            /\ FsEvents(c) = <<>>
            /\ \A i \in DOMAIN Heads(c) : Heads(c)[i].status = StatusMethodNotAllowed
            /\ \A i \in DOMAIN wbuf[c] : wbuf[c][i] = HeadChunk(StatusMethodNotAllowed, <<>>)
            /\ (result[c] = "ok" => StatusLines(c) = <<StatusMethodNotAllowed>>)

C5_Witness ==
    \E c \in Conns :
        /\ nread[c] = "data"
        /\ Parse(req[c]) = "Complete"
        /\ req[c].method = "get"
        /\ req[c].path = "/files/index.html"
        /\ result[c] = "ok"
        /\ StatusLines(c) = <<StatusMethodNotAllowed>>

(***************************************************************************)
(* C6: routing of a GET depends on the path alone: `/` and `/about` give   *)
(* 200 with their builtin page, a path that is neither and does not start  *)
(* with `/files/` gives 404, and only paths starting with `/files/` reach  *)
(* serve_file.                                                             *)
(***************************************************************************)
C6_Routing ==
    \A c \in Conns :
        IsGet(c) =>
            /\ Called(c, "handle_get_request")
            /\ Called(c, "serve_file") <=> StartsWith(req[c].path, "/files/")
            /\ ~StartsWith(req[c].path, "/files/") => FsEvents(c) = <<>>
            /\ (result[c] = "ok" /\ req[c].path = "/") =>
                   /\ StatusLines(c) = <<StatusOk>>
                   /\ BodyAfter(c, 1) = HomeHtml
            /\ (result[c] = "ok" /\ req[c].path = "/about") =>
                   /\ StatusLines(c) = <<StatusOk>>
                   /\ BodyAfter(c, 1) = AboutHtml
            /\ ( /\ result[c] = "ok"
                 /\ req[c].path \notin {"/", "/about"}
                 /\ ~StartsWith(req[c].path, "/files/") ) =>
                   /\ StatusLines(c) = <<StatusNotFound>>
                   /\ BodyAfter(c, 1) = NotFoundHtml

C6_Witness ==
    \E c \in Conns :
        /\ IsGet(c)
        /\ req[c].path = "/files"
        /\ result[c] = "ok"
        /\ StatusLines(c) = <<StatusNotFound>>

(***************************************************************************)
(* C7: when the read returns zero bytes the handler returns Ok at once:    *)
(* nothing is written, nothing is parsed or routed.                        *)
(***************************************************************************)
C7_ZeroReadCloses ==
    \A c \in Conns :
        nread[c] = "zero" =>
            /\ pc[c] = "closed"
            /\ result[c] = "ok"
            /\ sock[c] = <<>>
            /\ wbuf[c] = <<>>
            /\ log[c] = <<Event("socket.read", "")>>

C7_Witness == \E c \in Conns : nread[c] = "zero" /\ pc[c] = "closed"

(***************************************************************************)
(* C8: a connection cut off by the deadline has no response bytes at all   *)
(* on its socket.                                                          *)
(***************************************************************************)
C8_NothingSentOnTimeout ==
    \A c \in Conns : result[c] = "timeout" => sock[c] = <<>>

(***************************************************************************)
(* C9: a GET under /files/ that resolves to an existing regular file (the  *)
(* `..` guard lets the segment through, the joined path is no directory    *)
(* and File::open succeeds) gets one 200 response whose body is the file's *)
(* bytes and whose Content-Type follows the suffix table.                  *)
(***************************************************************************)
SuffixTable(ext) ==
    CASE ext = "html" -> "text/html"
      [] ext = "css" -> "text/css"
      [] ext = "js" -> "application/javascript"
      [] ext = "jpg" -> "image/jpeg"
      [] ext = "jpeg" -> "image/jpeg"
      [] ext = "png" -> "image/png"
      [] ext = "gif" -> "image/gif"
      [] OTHER -> "application/octet-stream"

ResolvesToFile(c) ==
    /\ IsFileGet(c)
    /\ ~Contains(SegmentOf(req[c].path), "..")
    /\ ~IsDir(JoinedPath(req[c].path))
    /\ OpenOk(JoinedPath(req[c].path))

C9_FileServedVerbatim ==
    \A c \in Conns :
        (ResolvesToFile(c) /\ result[c] = "ok") =>
            LET file_path == JoinedPath(req[c].path)
                bytes == FsEntries[FsIndex(Lookup(file_path).node)].data
                ext == Extension(file_path)
            IN  /\ Len(sock[c]) = 2
                /\ sock[c][1].kind = "head"
                /\ sock[c][1].status = StatusOk
                /\ sock[c][2] = BodyChunk(bytes)
                /\ HasHeader(sock[c][1], "Content-Type")
                /\ HeaderValue(sock[c][1], "Content-Type") =
                       (IF ext.some THEN SuffixTable(ext.val)
                        ELSE "application/octet-stream")

C9_Witness ==
    \E c \in Conns :
        /\ ResolvesToFile(c)
        /\ result[c] = "ok"
        /\ req[c].path = "/files/photo.jpeg"
        /\ sock[c][2].data = "JFIF22"

(***************************************************************************)
(* C10: a GET under /files/ that resolves to a readable directory gets one *)
(* 200 response listing exactly one item per child whose file type can be  *)
(* determined, with the `../` parent link if and only if the listed        *)
(* directory is not the serving root.                                      *)
(***************************************************************************)
ResolvesToDir(c) ==
    /\ IsFileGet(c)
    /\ ~Contains(SegmentOf(req[c].path), "..")
    /\ IsDir(JoinedPath(req[c].path))
    /\ ReadDirOk(JoinedPath(req[c].path))

StatableChildren(dir_path) ==
    {i \in DOMAIN DirEntries(dir_path) : DirEntries(dir_path)[i].typeOk}

C10_ListingAndParentLink ==
    \A c \in Conns :
        (ResolvesToDir(c) /\ result[c] = "ok") =>
            LET dir_path == JoinedPath(req[c].path)
                html == BodyAfter(c, 1)
                parent == Contains(html, "<a href=\"../\">")
            IN  /\ StatusLines(c) = <<StatusOk>>
                /\ Occurrences(html, "<li>") =
                       Cardinality(StatableChildren(dir_path))
                           + (IF parent THEN 1 ELSE 0)
                /\ parent <=> (Lookup(dir_path).node # RootNode)

(***************************************************************************)
(* C11: an incomplete request is answered 400 with the body "Incomplete    *)
(* request received", an unparsable one (more than 64 headers included)    *)
(* 400 with the body "Malformed HTTP request"; the handler then returns,   *)
(* and a peer that reads as many body bytes as Content-Length announces    *)
(* receives that complete text.                                            *)
(***************************************************************************)
\* the number a Content-Length header announces
DeclaredLength(chunk) ==
    CHOOSE n \in 0..999 : ToString(n) = HeaderValue(chunk, "Content-Length")

\* the body a peer honouring Content-Length takes from the response whose
\* head is at position i of c's socket
PeerBody(c, i) ==
    LET body == BodyAfter(c, i)
        n == DeclaredLength(sock[c][i])
    IN  SubSeq(body, 1, IF n < Len(body) THEN n ELSE Len(body))

C11_BadRequestBodies ==
    \A c \in Conns :
        (nread[c] = "data" /\ result[c] = "ok" /\ Parse(req[c]) # "Complete") =>
            LET text == IF Parse(req[c]) = "Partial"
                        THEN "Incomplete request received"
                        ELSE "Malformed HTTP request"
            IN  /\ StatusLines(c) = <<"HTTP/1.1 400 Bad Request">>
                /\ pc[c] = "closed"
                /\ BodyAfter(c, 1) = text
                /\ PeerBody(c, 1) = text

(***************************************************************************)
(* C12: every response of a handler that returned Ok, whatever its status, *)
(* carries a Content-Length, a Content-Type and a `Connection: close`      *)
(* header between its status line and the blank line.                      *)
(***************************************************************************)
C12_HeadersAlwaysPresent ==
    \A c \in Conns : \A i \in DOMAIN sock[c] :
        (result[c] = "ok" /\ sock[c][i].kind = "head") =>
            /\ HasHeader(sock[c][i], "Content-Length")
            /\ HasHeader(sock[c][i], "Content-Type")
            /\ HasHeader(sock[c][i], "Connection")
            /\ HeaderValue(sock[c][i], "Connection") = "close"

(***************************************************************************)
(* C13: a /files/ path without `..` that does not exist or cannot be       *)
(* opened is answered with exactly the 404 page, and a directory whose     *)
(* entries cannot be read with exactly the 500 page; the failure itself    *)
(* never ends the handler with an error (only a failed socket write can).  *)
(***************************************************************************)
CannotOpen(c) ==
    /\ IsFileGet(c)
    /\ ~Contains(SegmentOf(req[c].path), "..")
    /\ ~IsDir(JoinedPath(req[c].path))
    /\ ~OpenOk(JoinedPath(req[c].path))

CannotList(c) ==
    /\ IsFileGet(c)
    /\ ~Contains(SegmentOf(req[c].path), "..")
    /\ IsDir(JoinedPath(req[c].path))
    /\ ~ReadDirOk(JoinedPath(req[c].path))

C13_ResolverFailuresAnswered ==
    \A c \in Conns :
        /\ (CannotOpen(c) \/ CannotList(c)) =>
              /\ result[c] = "err" => log[c][Len(log[c])].op = "write_all"
              /\ \A i \in DOMAIN log[c] : log[c][i].op # "read_to_end"
        /\ (CannotOpen(c) /\ result[c] = "ok") =>
              /\ Len(sock[c]) = 2
              /\ StatusLines(c) = <<"HTTP/1.1 404 NOT FOUND">>
              /\ BodyAfter(c, 1) = FileNotFoundHtml
              /\ pc[c] = "closed"
        /\ (CannotList(c) /\ result[c] = "ok") =>
              /\ Len(sock[c]) = 2
              /\ StatusLines(c) = <<"HTTP/1.1 500 Internal Server Error">>
              /\ BodyAfter(c, 1) = DirErrorHtml
              /\ pc[c] = "closed"

C13_Witness ==
    \E c \in Conns :
        /\ CannotOpen(c)
        /\ req[c].path = "/files/secret.js"
        /\ result[c] = "ok"
        /\ StatusLines(c) = <<StatusNotFound>>

(***************************************************************************)
(* C14: the acceptor never waits for a handler: whenever a client is       *)
(* waiting in the accept queue the loop can accept it and spawn its task,  *)
(* whatever the tasks spawned before are doing.                            *)
(***************************************************************************)
C14_AcceptNeverBlocked ==
    backlog > 0 => ENABLED (\E c \in Conns : Accept(c))

\* a connection was accepted while another handler was still suspended
C14_Witness ==
    \E c, d \in Conns :
        /\ c # d
        /\ pc[c] = "write"
        /\ pc[d] = "read"

(***************************************************************************)
(* C15: an error stays in its connection: a step of one connection's task  *)
(* (parse error, resource error, I/O failure or timeout included) changes  *)
(* nothing of any other connection and nothing of the accept queue, and    *)
(* connections that read the same request and return Ok have written the   *)
(* same response, whatever happened to the others.                         *)
(***************************************************************************)
ConnState(c) ==
    <<pc[c], req[c], nread[c], sock[c], wbuf[c], after[c], contents[c],
      log[c], result[c]>>

C15_ErrorsContained ==
    /\ [](\A c, d \in Conns :
            (nread[c] = "data" /\ nread[d] = "data" /\ req[c] = req[d]
                /\ result[c] = "ok" /\ result[d] = "ok") => sock[c] = sock[d])
    /\ [][\A c \in Conns :
            (ConnState(c)' # ConnState(c) /\ pc[c] # "idle") =>
                /\ \A d \in Conns \ {c} : ConnState(d)' = ConnState(d)
                /\ backlog' = backlog]_vars

\* one task has failed, another is still being served
C15_Witness ==
    \E c, d \in Conns :
        /\ c # d
        /\ result[c] = "err"
        /\ nread[c] = "data"
        /\ pc[d] = "write"

(***************************************************************************)
(* C16: every accepted connection is eventually closed, its task ended by  *)
(* the handler's return (Ok or Err) or by the deadline, and the socket     *)
(* dropped: no accepted connection stays open for ever.                    *)
(***************************************************************************)
C16_EveryConnectionCloses ==
    \A c \in Conns :
        (pc[c] \in AwaitPoints) ~>
            (pc[c] = "closed" /\ result[c] \in {"ok", "err", "timeout"})

\* a handler stalled in its write was ended by the deadline
C16_Witness ==
    \E c \in Conns :
        /\ pc[c] = "closed"
        /\ result[c] = "timeout"
        /\ log[c][Len(log[c])].op = "write_all"

(***************************************************************************)
(* C17: whenever parsing succeeds, the path handed to method dispatch and  *)
(* routing begins with `/`.                                                *)
(***************************************************************************)
C17_PathBeginsWithSlash ==
    \A c \in Conns :
        (nread[c] = "data" /\ Parse(req[c]) = "Complete") =>
            StartsWith(req[c].path, "/")

(***************************************************************************)
(* C18: within a connection the steps are sequential and the socket is     *)
(* read once: the read is the first operation and the only read, nothing   *)
(* is written and no file is touched before it has returned data, an       *)
(* incomplete request is answered 400 without a second read, and once the  *)
(* handler has ended nothing more is written or done.                      *)
(***************************************************************************)
ReadEvents(c) == SelectSeq(log[c], LAMBDA e : e.op = "socket.read")

C18_OneReadThenSequential ==
    [][\A c \in Conns :
          /\ Len(ReadEvents(c)') <= 1
          /\ log'[c] # <<>> => log'[c][1].op = "socket.read"
          /\ nread'[c] # "data" => (sock'[c] = <<>> /\ wbuf'[c] = <<>>
                                      /\ Len(log'[c]) <= 1)
          /\ (nread'[c] = "data" /\ Parse(req'[c]) = "Partial"
                  /\ result'[c] = "ok") =>
                 StatusLines(c)' = <<StatusBadRequest>>
          /\ pc[c] = "closed" => ConnState(c)' = ConnState(c)]_vars

C18_Witness ==
    \E c \in Conns :
        /\ nread[c] = "data"
        /\ Parse(req[c]) = "Partial"
        /\ result[c] = "ok"
        /\ Len(ReadEvents(c)) = 1
        /\ StatusLines(c) = <<StatusBadRequest>>

(***************************************************************************)
(* C19: for a path that starts with `/files/` the segment given to the     *)
(* file resolver is the path with that leading prefix removed exactly      *)
(* once: `/files//files/x` resolves the segment `/files/x`, not `x`.       *)
(***************************************************************************)
C19_PrefixRemovedOnce ==
    \A c \in Conns : \A i \in DOMAIN log[c] :
        (IsFileGet(c) /\ log[c][i].op = "is_dir") =>
            log[c][i].arg = PathJoin("public", Remainder(req[c].path))

(***************************************************************************)
(* C20: a failed socket read or write or a failed file read is not retried *)
(* and ends the handler there: the step in which the error occurs issues   *)
(* no further operation and closes the connection, afterwards nothing more *)
(* is written or accessed, and the error reaches no one but the task that  *)
(* logs it.                                                                *)
(***************************************************************************)
C20_ErrorAbortsHandler ==
    [][\A c \in Conns :
          /\ (result[c] # "err" /\ result'[c] = "err") =>
                /\ pc[c] \in {"read", "write", "read_to_end"}
                /\ pc'[c] = "closed"
                /\ log'[c] = log[c]
                /\ wbuf'[c] = <<>>
                /\ backlog' = backlog
                /\ \A d \in Conns \ {c} : ConnState(d)' = ConnState(d)
          /\ result[c] = "err" => ConnState(c)' = ConnState(c)]_vars

\* the 403 of a `..` request failed to be written: no path was resolved
C20_Witness ==
    \E c \in Conns :
        /\ result[c] = "err"
        /\ IsFileGet(c)
        /\ Contains(SegmentOf(req[c].path), "..")
        /\ FsEvents(c) = <<>>
        /\ pc[c] = "closed"

====
